---------------------------- MODULE Spec2Model ----------------------------
(***************************************************************************)
(* A model of pyrsimg: layer_stack (layer_stack.py), the coordinate        *)
(* helpers (geo_imgxy.py), raster2vec (raster_vec.py) and imgShow /        *)
(* imsShow (imgShow.py).  Each function has a specification of its own     *)
(* (SpecStack, SpecGeo, SpecUtm, SpecVec, SpecShow); the variables of the  *)
(* other functions rest at their idle values meanwhile.                    *)
(***************************************************************************)
EXTENDS Integers, Sequences, FiniteSets, TLC

VARIABLES
    \* ---- layer_stack ----
    band_info,       \* metadata of the files named by band_paths, in list order
    extent_mode,     \* argument extent_mode
    output_nodata,   \* argument output_nodata (None when not passed)
    ls_pc,           \* position in layer_stack: start, write, done, raised
    extent,          \* the locals left, bottom, right, top (None until computed)
    out_file,        \* the file at output_path
    ls_result,       \* what the call returned or raised
    \* ---- geo2imagexy, imagexy2geo ----
    gdal_trans,      \* the geotransform, six floats
    img_shape,       \* rsimg_array.shape: <<rows, cols>>
    integer,         \* argument integer of geo2imagexy
    pixel,           \* the (row, col) given to imagexy2geo
    geo_xy,          \* what imagexy2geo returned: <<x, y>>
    geo_result,      \* what geo2imagexy returned or raised
    geo_pc,          \* start, geo (imagexy2geo returned), done
    \* ---- get_utm_zone ----
    lon,             \* argument lon, in units of 1/LonDen degree
    utm_zone,        \* what get_utm_zone returned
    utm_pc,          \* start, done
    \* ---- raster2vec ----
    image,           \* band 1 of the raster at path_raster: cell -> value
    dn_values,       \* argument dn_values, as the set dn_set
    features,        \* the locals geoms and values: a set of (cells, DN)
    vec_file,        \* the file at path_save
    vec_pc,          \* start, shapes (the loop over shapes is over), done
    \* ---- imgShow ----
    caller_img,      \* the caller's image array (2-D, its pixels in reading order)
    caller_ax,       \* a matplotlib Axes of the caller's: the images shown on it
    plt_axes,        \* pyplot's current axes: None, or the images shown on it
    show_calls,      \* every imgShow call made so far: its arguments and its effect
    show_pc,         \* ready while SpecShow runs
    \* ---- imsShow ----
    img_list,        \* argument img_list: the images, named 1..n in list order
    ims_args,        \* arguments row, col (None when not passed) and whether axs was passed
    grid,            \* the locals row and col once defaulted: <<row, col>>
    axs,             \* the local axs: what plt.subplots returned or the caller gave
    ims_ij,          \* the loop variables <<i, j>>
    ims_used,        \* every index the loop subscripted the lists with, in order
    ims_shown,       \* every imgShow call of the loop: the index and the ax it got
    ims_result,      \* what imsShow returned or raised
    ims_pc           \* start, loop, done, raised

stackVars == <<band_info, extent_mode, output_nodata, ls_pc, extent, out_file,
               ls_result>>

geoVars == <<gdal_trans, img_shape, integer, pixel, geo_xy, geo_result, geo_pc>>

utmVars == <<lon, utm_zone, utm_pc>>

vecVars == <<image, dn_values, features, vec_file, vec_pc>>

showVars == <<caller_img, caller_ax, plt_axes, show_calls, show_pc>>

imsVars == <<img_list, ims_args, grid, axs, ims_ij, ims_used, ims_shown,
             ims_result, ims_pc>>

NotStack == <<geoVars, utmVars, vecVars, showVars, imsVars>>

NotGeo == <<stackVars, utmVars, vecVars, showVars, imsVars>>

NotUtm == <<stackVars, geoVars, vecVars, showVars, imsVars>>

NotVec == <<stackVars, geoVars, utmVars, showVars, imsVars>>

NotShow == <<stackVars, geoVars, utmVars, vecVars, imsVars>>

NotIms == <<stackVars, geoVars, utmVars, vecVars, showVars>>

\* Python's None is the empty tuple and a value v that may be None is <<v>>.
None == <<>>

Some(v) == <<v>>

TheVal(o) == o[1]

(***************************************************************************)
(* Bounds of the model.                                                    *)
(***************************************************************************)
MaxBands == 2      \* band_paths holds 0..MaxBands paths
MaxCoord == 2      \* bounds of a band are drawn from 0..MaxCoord
Prec == 2          \* significand bits of a float (53 in numpy's float64)
FracBits == 2      \* the smallest float above 0 is 2^-FracBits
MaxOrigin == 3     \* gdal_trans[0], [3] are 0..MaxOrigin units of 2^-FracBits
MaxStep == 3       \* gdal_trans[1] is 1..MaxStep units, gdal_trans[5] -MaxStep..-1
MaxRot == 1        \* gdal_trans[2], [4] are -MaxRot..MaxRot units
MaxShape == 2      \* the image has 1..MaxShape rows and columns
LonDen == 2        \* longitudes are multiples of 1/LonDen degree
MaxLon == 180      \* get_utm_zone: lon "should be in the range of [-180, 180]"
ImgRows == 2       \* rows of the raster given to raster2vec
ImgCols == 2       \* columns of the raster given to raster2vec
MaxVal == 3        \* pixel values are 0, 1/2, ..., MaxVal/2
NPix == 2          \* pixels of the image given to imgShow
MaxDN == 2         \* its pixels are NaN or 0..MaxDN
MaxCalls == 2      \* imgShow calls in one run
MaxImgs == 3       \* images in img_list
MaxGrid == 3       \* largest row and col passed to imsShow

SetMin(S) == CHOOSE x \in S : \A y \in S : x <= y

SetMax(S) == CHOOSE x \in S : \A y \in S : x >= y

Range(s) == {s[i] : i \in DOMAIN s}

(***************************************************************************)
(* layer_stack                                                             *)
(***************************************************************************)

\* src.bounds of an input file: the files are north-up (transform.a > 0 and
\* transform.e < 0), so left < right and bottom < top.
BoundsSet ==
    {b \in [left : 0..MaxCoord, bottom : 0..MaxCoord,
            right : 0..MaxCoord, top : 0..MaxCoord] :
        b.left < b.right /\ b.bottom < b.top}

\* What step 1 reads of one file: its bounds and its nodata value (the pixel
\* size is one unit for every file).
BandInfoSet == [bounds : BoundsSet, nodata : {None, Some(9)}]

ExtentModes == {"union", "intersection", "nearest"}

\* The file at output_path before the call.
OldFile == [state |-> "old"]

\* 2.2 Nodata value
DefaultNodata(info, arg) ==
    IF arg # None THEN TheVal(arg)
    ELSE IF info[1].nodata # None THEN TheVal(info[1].nodata) ELSE 0

\* 3. target extent, mode 'union'
UnionExtentWrong(info) ==
    [left   |-> SetMin({info[i].bounds.left : i \in DOMAIN info}),
     bottom |-> SetMin({info[i].bounds.bottom : i \in DOMAIN info}),
     right  |-> SetMax({info[i].bounds.right : i \in DOMAIN info}),
     top    |-> SetMin({info[i].bounds.top : i \in DOMAIN info})]

UnionExtent(info) ==
    [left   |-> SetMin({info[i].bounds.left : i \in DOMAIN info}),
     bottom |-> SetMin({info[i].bounds.bottom : i \in DOMAIN info}),
     right  |-> SetMax({info[i].bounds.right : i \in DOMAIN info}),
     top    |-> SetMax({info[i].bounds.top : i \in DOMAIN info})]

\* 3. target extent, mode 'intersection'
IntersectionExtentWrong(info) ==
    [left   |-> SetMax({info[i].bounds.left : i \in DOMAIN info}),
     bottom |-> SetMax({info[i].bounds.bottom : i \in DOMAIN info}),
     right  |-> SetMax({info[i].bounds.right : i \in DOMAIN info}),
     top    |-> SetMin({info[i].bounds.top : i \in DOMAIN info})]

IntersectionExtent(info) ==
    [left   |-> SetMax({info[i].bounds.left : i \in DOMAIN info}),
     bottom |-> SetMax({info[i].bounds.bottom : i \in DOMAIN info}),
     right  |-> SetMin({info[i].bounds.right : i \in DOMAIN info}),
     top    |-> SetMin({info[i].bounds.top : i \in DOMAIN info})]

\* "Validate intersection exists"
NoIntersectionWrong(e) == e.left > e.right \/ e.bottom > e.top

NoIntersection(e) == e.left >= e.right \/ e.bottom >= e.top

\* 5. the output profile; width and height are (right - left) / 1 and
\* (top - bottom) / 1, the transform starts at (left, top).
OutProfile(info, e, nodata) ==
    [height |-> e.top - e.bottom,
     width  |-> e.right - e.left,
     count  |-> Len(info),
     nodata |-> nodata,
     origin |-> <<e.left, e.top>>]

\* The call layer_stack(band_paths, output_path, extent_mode, output_nodata=...)
\* up to the opening of the output file: steps 1 to 5 and line 109.  With
\* output_dtype left at None, step 2.1 reads band_info[0] and raises
\* IndexError on an empty list before anything else is looked at.
LSCall ==
    /\ ls_pc = "start"
    /\ \E mode \in ExtentModes, nodata \in {None, Some(5)} :
         /\ extent_mode' = mode
         /\ output_nodata' = nodata
         /\ IF Len(band_info) = 0
            THEN /\ ls_pc' = "raised"
                 /\ ls_result' = "IndexError"
                 /\ UNCHANGED <<extent, out_file>>
            ELSE IF mode \notin {"union", "intersection"}
            THEN /\ ls_pc' = "raised"
                 /\ ls_result' = "ValueError"
                 /\ UNCHANGED <<extent, out_file>>
            ELSE LET e == IF mode = "union" THEN UnionExtent(band_info)
                          ELSE IntersectionExtent(band_info)
                     p == OutProfile(band_info, e, DefaultNodata(band_info, nodata))
                 IN  /\ extent' = Some(e)
                     /\ IF mode = "intersection" /\ NoIntersection(e)
                        THEN /\ ls_pc' = "raised"
                             /\ ls_result' = "ValueError"
                             /\ UNCHANGED out_file
                        ELSE /\ ls_pc' = "write"
                             /\ out_file' = [state |-> "open", profile |-> p,
                                             bands |-> [k \in 1..p.count |-> None],
                                             writes |-> <<>>]
                             /\ UNCHANGED ls_result
    /\ UNCHANGED band_info
    /\ UNCHANGED NotStack

\* The band of the output that one pass of the loop of step 6 writes.
WrittenBandWrong(idx) == 1

WrittenBand(idx) == idx

\* One pass of the loop of step 6: reproject band 1 of band_paths[band_idx-1]
\* onto the output grid and write it as band band_idx.
WriteBand(file, band_idx, info) ==
    LET k == WrittenBand(band_idx)
        data == [src |-> band_idx, src_band |-> 1,
                 src_nodata |-> info[band_idx].nodata,
                 dst_nodata |-> file.profile.nodata]
    IN  [file EXCEPT !.bands[k] = Some(data), !.writes = Append(@, k)]

\* The loop of step 6 from band_idx on: enumerate(zip(band_info, band_paths),
\* start=1).
RECURSIVE WriteBands(_, _, _)
WriteBands(file, band_idx, info) ==
    IF band_idx > Len(info) THEN file
    ELSE WriteBands(WriteBand(file, band_idx, info), band_idx + 1, info)

\* Step 6: every band is written, the file is closed and output_path
\* returned.
LSWriteBands ==
    /\ ls_pc = "write"
    /\ out_file' = [WriteBands(out_file, 1, band_info) EXCEPT !.state = "closed"]
    /\ ls_pc' = "done"
    /\ ls_result' = "output_path"
    /\ UNCHANGED <<band_info, extent_mode, output_nodata, extent>>
    /\ UNCHANGED NotStack

\* The files named by band_paths, before the call.
InitStack ==
    /\ band_info \in UNION {[1..n -> BandInfoSet] : n \in 0..MaxBands}
    /\ extent_mode = "intersection"
    /\ output_nodata = None
    /\ ls_pc = "start"
    /\ extent = None
    /\ out_file = OldFile
    /\ ls_result = "none"

IdleStack ==
    /\ band_info = <<>>
    /\ extent_mode = "intersection"
    /\ output_nodata = None
    /\ ls_pc = "idle"
    /\ extent = None
    /\ out_file = OldFile
    /\ ls_result = "none"

NextStack == LSCall \/ LSWriteBands

(***************************************************************************)
(* Claims about layer_stack (checked under SpecStack)                      *)
(***************************************************************************)
Bands == DOMAIN band_info

Bnd(i) == band_info[i].bounds

\* C1: with extent_mode = 'union' and a non-empty list of bands the target
\* extent is the bounding box of the bands: each side is the side of some
\* band, left and bottom are the least, right and top the greatest, so every
\* band lies inside the target extent.
C1_UnionIsBoundingBox ==
    (extent_mode = "union" /\ Len(band_info) > 0 /\ ls_pc # "start") =>
        /\ extent # None
        /\ LET e == TheVal(extent)
           IN  /\ \E i \in Bands : e.left = Bnd(i).left
               /\ \E i \in Bands : e.bottom = Bnd(i).bottom
               /\ \E i \in Bands : e.right = Bnd(i).right
               /\ \E i \in Bands : e.top = Bnd(i).top
               /\ \A i \in Bands :
                     /\ e.left <= Bnd(i).left /\ Bnd(i).right <= e.right
                     /\ e.bottom <= Bnd(i).bottom /\ Bnd(i).top <= e.top

\* A union call over two bands neither of which holds the other has returned.
C1_Witness ==
    /\ extent_mode = "union" /\ ls_pc = "done" /\ Len(band_info) = 2
    /\ TheVal(extent) # Bnd(1) /\ TheVal(extent) # Bnd(2)

\* C2: with extent_mode = 'intersection', once the call is past the extent
\* validation the target extent is the common extent of the bands (greatest
\* left and bottom, least right and top), has positive width and height, and
\* lies inside every band.
C2_IntersectionIsCommonExtent ==
    (extent_mode = "intersection" /\ ls_pc \in {"write", "done"}) =>
        /\ extent # None
        /\ LET e == TheVal(extent)
           IN  /\ \E i \in Bands : e.left = Bnd(i).left
               /\ \E i \in Bands : e.bottom = Bnd(i).bottom
               /\ \E i \in Bands : e.right = Bnd(i).right
               /\ \E i \in Bands : e.top = Bnd(i).top
               /\ e.left < e.right /\ e.bottom < e.top
               /\ \A i \in Bands :
                     /\ Bnd(i).left <= e.left /\ e.right <= Bnd(i).right
                     /\ Bnd(i).bottom <= e.bottom /\ e.top <= Bnd(i).top

\* An intersection call over two bands that overlap only in part has opened
\* the output file.
C2_Witness ==
    /\ extent_mode = "intersection" /\ ls_pc = "write" /\ Len(band_info) = 2
    /\ TheVal(extent) # Bnd(1) /\ TheVal(extent) # Bnd(2)

\* The bands have no overlap of positive area: some band starts where, or
\* after, another one ends.
NoOverlap ==
    \/ \E i, j \in Bands : Bnd(i).left >= Bnd(j).right
    \/ \E i, j \in Bands : Bnd(i).bottom >= Bnd(j).top

BadCall ==
    \/ extent_mode \notin {"union", "intersection"}
    \/ extent_mode = "intersection" /\ NoOverlap

\* C3 as stated: a call whose extent_mode is neither 'union' nor
\* 'intersection', or whose bands have no overlap under 'intersection', fails
\* with ValueError and leaves the file at output_path as it was.
C3_AsStated ==
    (ls_pc # "start" /\ BadCall) =>
        ls_pc = "raised" /\ ls_result = "ValueError" /\ out_file = OldFile

\* C3 amended: the same, for a non-empty list of bands (with an empty list
\* and output_dtype, output_nodata or resolution left out, the call fails
\* with IndexError at band_info[0] before extent_mode is looked at).
C3_ValueErrorBeforeOpen ==
    (ls_pc # "start" /\ Len(band_info) > 0 /\ BadCall) =>
        ls_pc = "raised" /\ ls_result = "ValueError" /\ out_file = OldFile

\* An intersection call over two bands that only touch has raised.
C3_Witness ==
    /\ ls_pc = "raised" /\ extent_mode = "intersection" /\ Len(band_info) = 2
    /\ Bnd(1).right = Bnd(2).left /\ ls_result = "ValueError"

\* C4: a call that returns has written a file of len(band_paths) bands, band
\* i holding the resampled first band of band_paths[i-1]; the bands were
\* written in list order, each once, and output_path is returned.
C4_BandsInOrder ==
    (ls_pc = "done") =>
        /\ ls_result = "output_path"
        /\ out_file.state = "closed"
        /\ out_file.profile.count = Len(band_info)
        /\ DOMAIN out_file.bands = 1..Len(band_info)
        /\ \A i \in Bands :
              /\ out_file.bands[i] # None
              /\ TheVal(out_file.bands[i]).src = i
              /\ TheVal(out_file.bands[i]).src_band = 1
        /\ out_file.writes = [i \in 1..Len(band_info) |-> i]

\* A call over two bands has returned.
C4_Witness == ls_pc = "done" /\ Len(band_info) = 2 /\ Len(out_file.writes) = 2

\* The first nodata value that is not None among the bands, in list order,
\* and 0 when there is none.
FirstValidNodata ==
    IF \A i \in Bands : band_info[i].nodata = None THEN 0
    ELSE LET k == SetMin({i \in Bands : band_info[i].nodata # None})
         IN  TheVal(band_info[k].nodata)

\* C5: called without output_nodata, the output's nodata value is the first
\* valid nodata value among the bands, and 0 when no band has one.
C5_FirstValidNodata ==
    (ls_pc \in {"write", "done"} /\ output_nodata = None) =>
        out_file.profile.nodata = FirstValidNodata

(***************************************************************************)
(* Floating point.  A float is held as an integer number of units of       *)
(* 2^-FracBits; only the integers of at most Prec significant bits are     *)
(* floats, and every operation rounds its exact result to the nearest of   *)
(* them, ties to the even significand, as IEEE 754 binary arithmetic does. *)
(***************************************************************************)
RECURSIVE Pow2(_)
Pow2(k) == IF k = 0 THEN 1 ELSE 2 * Pow2(k - 1)

Unit == Pow2(FracBits)

Abs(n) == IF n < 0 THEN -n ELSE n

\* The spacing of the floats around a / d (a >= 0, d > 0): the least 2^k with
\* a / d < 2^(Prec + k).
RECURSIVE Spacing(_, _, _)
Spacing(a, d, s) == IF a < d * s * Pow2(Prec) THEN s ELSE Spacing(a, d, 2 * s)

\* The integer nearest to a / d (a >= 0, d > 0), a tie going to the even one.
NearestEven(a, d) ==
    LET q == a \div d
        r == a % d
    IN  IF 2 * r < d THEN q
        ELSE IF 2 * r > d THEN q + 1
        ELSE IF q % 2 = 0 THEN q ELSE q + 1

\* The float nearest to n / d units (d > 0).
RoundRat(n, d) ==
    LET a == Abs(n)
        s == Spacing(a, d, 1)
        m == s * NearestEven(a, d * s)
    IN  IF n < 0 THEN -m ELSE m

IsFloat(v) == RoundRat(v, 1) = v

FromInt(i) == RoundRat(i * Unit, 1)

FAdd(x, y) == RoundRat(x + y, 1)

FSub(x, y) == RoundRat(x - y, 1)

FMul(x, y) == RoundRat(x * y, Unit)

FDiv(x, y) == IF y < 0 THEN RoundRat(-(x * Unit), -y) ELSE RoundRat(x * Unit, y)

\* np.floor: the greatest float of integer value not above x.
FFloor(x) == (x \div Unit) * Unit

(***************************************************************************)
(* imagexy2geo and geo2imagexy                                             *)
(***************************************************************************)
\* x = gdal_trans[0] + col * gdal_trans[1] + row * gdal_trans[2]
\* y = gdal_trans[3] + col * gdal_trans[4] + row * gdal_trans[5]
\* (gt is indexed from 1: gt[k + 1] is gdal_trans[k])
imagexy2geo(row, col, gt) ==
    <<FAdd(FAdd(gt[1], FMul(FromInt(col), gt[2])), FMul(FromInt(row), gt[3])),
      FAdd(FAdd(gt[4], FMul(FromInt(col), gt[5])), FMul(FromInt(row), gt[6]))>>

\* np.linalg.solve for a 2x2 system [[a11, a12], [a21, a22]] . <<u, v>> = <<b1, b2>>:
\* LU factorisation with partial pivoting, then forward and back substitution,
\* every operation rounded.  None when the matrix is singular (LinAlgError).
SolvePivoted(a11, a12, a21, a22, b1, b2) ==
    IF a11 = 0 THEN None
    ELSE LET l   == FDiv(a21, a11)
             u22 == FSub(a22, FMul(l, a12))
             c2  == FSub(b2, FMul(l, b1))
         IN  IF u22 = 0 THEN None
             ELSE LET v == FDiv(c2, u22)
                      u == FDiv(FSub(b1, FMul(a12, v)), a11)
                  IN  Some(<<u, v>>)

linalg_solve(a11, a12, a21, a22, b1, b2) ==
    IF Abs(a21) > Abs(a11)
    THEN SolvePivoted(a21, a22, a11, a12, b2, b1)
    ELSE SolvePivoted(a11, a12, a21, a22, b1, b2)

\* "Mask out the points outside the image": the test of ids_out.
OutOfRange(row_img, col_img, shape) ==
    \/ row_img >= FromInt(shape[1])
    \/ col_img >= FromInt(shape[2])

\* The order of the pair geo2imagexy returns.
ReturnedPair(row_img, col_img) == [kind |-> "ok", row |-> row_img, col |-> col_img]

geo2imagexy(x, y, gt, shape, int) ==
    LET sol == linalg_solve(gt[2], gt[3], gt[5], gt[6], FSub(x, gt[1]), FSub(y, gt[4]))
    IN  IF sol = None THEN [kind |-> "LinAlgError"]
        ELSE LET col_img == IF int THEN FFloor(TheVal(sol)[1]) ELSE TheVal(sol)[1]
                 row_img == IF int THEN FFloor(TheVal(sol)[2]) ELSE TheVal(sol)[2]
             IN  IF OutOfRange(row_img, col_img, shape)
                 THEN [kind |-> "IndexError"]
                 ELSE ReturnedPair(row_img, col_img)

\* A caller asks for the geo coordinates of a pixel location (which need not
\* be inside the image: imagexy2geo does not look at the image).
CallImagexy2geo ==
    /\ geo_pc = "start"
    /\ \E row \in -1..MaxShape, col \in -1..MaxShape :
          /\ pixel' = <<row, col>>
          /\ geo_xy' = imagexy2geo(row, col, gdal_trans)
    /\ geo_pc' = "geo"
    /\ UNCHANGED <<gdal_trans, img_shape, integer, geo_result>>
    /\ UNCHANGED NotGeo

\* and hands them to geo2imagexy, with an image of some shape.
CallGeo2imagexy ==
    /\ geo_pc = "geo"
    /\ \E shape \in (1..MaxShape) \X (1..MaxShape), int \in BOOLEAN :
          /\ img_shape' = shape
          /\ integer' = int
          /\ geo_result' = geo2imagexy(geo_xy[1], geo_xy[2], gdal_trans, shape, int)
    /\ geo_pc' = "done"
    /\ UNCHANGED <<gdal_trans, pixel, geo_xy>>
    /\ UNCHANGED NotGeo

Floats(lo, hi) == {v \in lo..hi : IsFloat(v)}

InitGeo ==
    /\ gdal_trans \in
         {<<g0, g1, g2, g3, g4, g5>> :
            g0 \in Floats(0, MaxOrigin), g1 \in Floats(1, MaxStep),
            g2 \in Floats(-MaxRot, MaxRot), g3 \in Floats(0, MaxOrigin),
            g4 \in Floats(-MaxRot, MaxRot), g5 \in Floats(-MaxStep, -1)}
    /\ img_shape = <<1, 1>>
    /\ integer = TRUE
    /\ pixel = <<0, 0>>
    /\ geo_xy = <<0, 0>>
    /\ geo_result = [kind |-> "none"]
    /\ geo_pc = "start"

IdleGeo ==
    /\ gdal_trans = <<0, 1, 0, 0, 0, -1>>
    /\ img_shape = <<1, 1>>
    /\ integer = TRUE
    /\ pixel = <<0, 0>>
    /\ geo_xy = <<0, 0>>
    /\ geo_result = [kind |-> "none"]
    /\ geo_pc = "idle"

NextGeo == CallImagexy2geo \/ CallGeo2imagexy

(***************************************************************************)
(* Claims about geo2imagexy and imagexy2geo (checked under SpecGeo)        *)
(***************************************************************************)
Invertible(gt) == gt[2] * gt[6] - gt[3] * gt[5] # 0

InImage(row, col, shape) ==
    /\ 0 <= row /\ row < shape[1]
    /\ 0 <= col /\ col < shape[2]

\* C6: for a geotransform with an invertible 2x2 part and a pixel (row, col)
\* of the image, geo2imagexy(..., integer=True) of imagexy2geo(row, col)
\* returns that pixel, as the pair (row, col).
C6_RoundTrip ==
    (/\ geo_pc = "done" /\ integer /\ Invertible(gdal_trans)
     /\ InImage(pixel[1], pixel[2], img_shape)) =>
        geo_result = [kind |-> "ok", row |-> FromInt(pixel[1]), col |-> FromInt(pixel[2])]

\* C7: geo2imagexy returns a location only when the location is inside the
\* image: row in [0, rows) and col in [0, cols); for every other location it
\* raises IndexError.
C7_RaisesOutsideImage ==
    (geo_pc = "done" /\ geo_result.kind = "ok") =>
        /\ 0 <= geo_result.row /\ geo_result.row < FromInt(img_shape[1])
        /\ 0 <= geo_result.col /\ geo_result.col < FromInt(img_shape[2])

(***************************************************************************)
(* get_utm_zone                                                            *)
(***************************************************************************)
\* utm_zone = np.floor(lon/6)+31, lon being l / LonDen degrees
get_utm_zone(l) == (l \div (6 * LonDen)) + 31

CallGetUtmZone ==
    /\ utm_pc = "start"
    /\ utm_zone' = get_utm_zone(lon)
    /\ utm_pc' = "done"
    /\ UNCHANGED lon
    /\ UNCHANGED NotUtm

InitUtm ==
    /\ lon \in (-MaxLon * LonDen)..(MaxLon * LonDen)
    /\ utm_zone = 0
    /\ utm_pc = "start"

IdleUtm ==
    /\ lon = 0
    /\ utm_zone = 0
    /\ utm_pc = "idle"

NextUtm == CallGetUtmZone

\* C8: for every lon of [-180, 180] get_utm_zone returns a zone number of
\* 1..60, the zone whose 6-degree band [-180 + 6(z-1), -180 + 6z) holds lon
\* (the last band taking lon = 180 in).
C8_ValidUtmZone ==
    (utm_pc = "done") =>
        /\ utm_zone \in 1..60
        /\ (-180 + 6 * (utm_zone - 1)) * LonDen <= lon
        /\ \/ lon < (-180 + 6 * utm_zone) * LonDen
           \/ lon = 180 * LonDen /\ utm_zone = 60

(***************************************************************************)
(* raster2vec                                                              *)
(***************************************************************************)
Cells == (1..ImgRows) \X (1..ImgCols)

\* A pixel value or a member of dn_values is held as twice its value.
Values == 0..MaxVal

\* mask = np.isin(image, list(dn_set))
Mask(img, dn) == {c \in Cells : img[c] \in dn}

\* features.shapes joins pixels that share a side (connectivity 4).
Adjacent(c, d) ==
    \/ c[1] = d[1] /\ Abs(c[2] - d[2]) = 1
    \/ c[2] = d[2] /\ Abs(c[1] - d[1]) = 1

RECURSIVE Grow(_, _, _)
Grow(S, img, mask) ==
    LET T == S \cup {d \in mask : \E c \in S : Adjacent(c, d) /\ img[c] = img[d]}
    IN  IF T = S THEN S ELSE Grow(T, img, mask)

\* features.shapes(image, mask=mask): the connected regions of equal value
\* among the pixels of the mask, each with its value.
Shapes(img, mask) ==
    {[cells |-> Grow({c}, img, mask), value |-> img[c]] : c \in mask}

\* val = int(value): the value cut towards zero (v stands for v / 2).
IntOf(v) == IF v < 0 THEN -((-v) \div 2) ELSE v \div 2

\* if val in dn_set (an int equals the float of its value)
Kept(val, dn) == 2 * val \in dn

\* Lines 20 to 35: read band 1, build the mask, collect the shapes whose
\* int value is in dn_set.
R2VShapes ==
    /\ vec_pc = "start"
    /\ features' = {[cells |-> sh.cells, DN |-> IntOf(sh.value)] :
                      sh \in {t \in Shapes(image, Mask(image, dn_values)) :
                                Kept(IntOf(t.value), dn_values)}}
    /\ vec_pc' = "shapes"
    /\ UNCHANGED <<image, dn_values, vec_file>>
    /\ UNCHANGED NotVec

\* Lines 36 to 43: return when nothing was collected, else write the file
\* (GPKG when path_save ends in .gpkg, a shapefile otherwise).
R2VSave ==
    /\ vec_pc = "shapes"
    /\ IF features = {}
       THEN UNCHANGED vec_file
       ELSE \E gpkg \in BOOLEAN :
              vec_file' = [state |-> "written",
                           driver |-> IF gpkg THEN "GPKG" ELSE "ESRI Shapefile",
                           rows |-> features]
    /\ vec_pc' = "done"
    /\ UNCHANGED <<image, dn_values, features>>
    /\ UNCHANGED NotVec

NoFile == [state |-> "absent"]

InitVec ==
    /\ image \in [Cells -> Values]
    /\ dn_values \in SUBSET Values
    /\ features = {}
    /\ vec_file = NoFile
    /\ vec_pc = "start"

IdleVec ==
    /\ image = [c \in Cells |-> 0]
    /\ dn_values = {}
    /\ features = {}
    /\ vec_file = NoFile
    /\ vec_pc = "idle"

NextVec == R2VShapes \/ R2VSave

\* C9: every feature written has a DN that is a member of dn_values; every
\* region of pixels whose value is in dn_values yields a feature carrying that
\* value; and when no pixel matches dn_values no file is written.
C9_OnlyRequestedValues ==
    (vec_pc = "done") =>
        /\ vec_file.state = "written" =>
              \A f \in vec_file.rows : 2 * f.DN \in dn_values
        /\ \A c \in Cells : image[c] \in dn_values =>
              /\ vec_file.state = "written"
              /\ \E f \in vec_file.rows : c \in f.cells /\ 2 * f.DN = image[c]
        /\ (\A c \in Cells : image[c] \notin dn_values) => vec_file = NoFile

(***************************************************************************)
(* imgShow.  The image is a 2-D array, held as the sequence of its pixels; *)
(* a pixel is NaN or <<v>>.  What imshow is given is a sequence of         *)
(* fractions <<num, den>>.                                                 *)
(***************************************************************************)
NaN == <<>>

Pixels == {NaN} \cup {<<v>> : v \in 0..MaxDN}

\* img[np.isnan(img)] = 0
NanToZero(a) == [k \in DOMAIN a |-> IF a[k] = NaN THEN <<0>> ELSE a[k]]

\* The array the name img is bound to after "img = img.copy()": the caller's
\* own array ("caller") or a new one ("local").
ImgCopyAlias(ref) == ref

ImgCopy(ref) == "local"

\* The values of a, in increasing order.
Sorted(a) ==
    CHOOSE t \in [DOMAIN a -> Range(a)] :
        /\ \A i, j \in DOMAIN a : i < j => t[i] <= t[j]
        /\ \A v \in Range(a) :
              Cardinality({i \in DOMAIN a : t[i] = v}) =
              Cardinality({i \in DOMAIN a : a[i] = v})

\* 100 * np.percentile(a, q), by linear interpolation between the two
\* nearest ranks.
Percentile100(a, q) ==
    LET t == Sorted(a)
        k == (q * (Len(a) - 1)) \div 100
        r == (q * (Len(a) - 1)) % 100
    IN  IF r = 0 THEN 100 * t[k + 1]
        ELSE t[k + 1] * (100 - r) + t[k + 2] * r

\* np.clip(x, 0, 1) of the fraction n / d (d > 0).
Clip01(n, d) == IF n <= 0 THEN <<0, 1>> ELSE IF n >= d THEN <<1, 1>> ELSE <<n, d>>

\* (img - hist[0]) / (hist[1] - hist[0] + 0.0001), clipped to [0, 1]; h0 and
\* h1 are 100 * hist[0] and 100 * hist[1].  A denominator that is not
\* positive (hist[1] < hist[0], as for clip_percent > 50) leaves the sign of
\* the quotient turned.
Stretch(v, h0, h1) ==
    LET n == 100 * (100 * v - h0)
        d == 100 * (h1 - h0) + 1
    IN  IF d > 0 THEN Clip01(n, d) ELSE Clip01(-n, -d)

\* Lines 20 to 55 on the array a: what imshow is given, and what is returned.
Rendered(a, clip_percent) ==
    LET v == [k \in DOMAIN a |-> a[k][1]]
    IN  IF \A i, j \in DOMAIN v : v[i] = v[j]
        THEN [image |-> [k \in DOMAIN v |-> Clip01(v[k], 1)], ret |-> "None"]
        ELSE LET h0 == IF clip_percent = 0 THEN 0 ELSE Percentile100(v, clip_percent)
                 h1 == IF clip_percent = 0 THEN 100
                       ELSE Percentile100(v, 100 - clip_percent)
             IN  [image |-> [k \in DOMAIN v |-> Stretch(v[k], h0, h1)], ret |-> "im"]

\* The Axes the image goes to: the one passed ("if ax: ax.imshow"), else
\* pyplot's current axes ("plt.imshow"), which pyplot makes when there is none.
DrawnOn(ax, current) ==
    IF ax # None THEN TheVal(ax)
    ELSE IF current = None THEN <<>> ELSE TheVal(current)

\* One call imgShow(img=caller_img, ax=..., clip_percent=...): ax is a new
\* Axes ("fresh"), the Axes the caller keeps ("kept") or None.
CallImgShow ==
    /\ show_pc = "ready"
    /\ Len(show_calls) < MaxCalls
    /\ \E which \in {"fresh", "kept", "none"}, clip_percent \in {0, 2} :
         LET img  == ImgCopy("caller")
             h0   == [caller |-> caller_img, local |-> caller_img]
             h1   == [h0 EXCEPT ![img] = NanToZero(h0[img])]
             out  == Rendered(h1[img], clip_percent)
             ax   == CASE which = "fresh" -> Some(<<>>)
                       [] which = "kept"  -> Some(caller_ax)
                       [] OTHER           -> None
             after == Append(DrawnOn(ax, plt_axes), out.image)
         IN  /\ caller_img' = h1["caller"]
             /\ caller_ax' = IF which = "kept" THEN after ELSE caller_ax
             /\ plt_axes' = IF which = "none" THEN Some(after) ELSE plt_axes
             /\ show_calls' = Append(show_calls,
                  [args |-> [img |-> caller_img, ax |-> ax,
                             clip_percent |-> clip_percent],
                   shown |-> after, ret |-> out.ret,
                   img_after |-> caller_img',
                   plt_before |-> plt_axes, plt_after |-> plt_axes'])
    /\ UNCHANGED show_pc
    /\ UNCHANGED NotShow

InitShow ==
    /\ caller_img \in [1..NPix -> Pixels]
    /\ caller_ax = <<>>
    /\ plt_axes = None
    /\ show_calls = <<>>
    /\ show_pc = "ready"

IdleShow ==
    /\ caller_img = [k \in 1..NPix |-> <<0>>]
    /\ caller_ax = <<>>
    /\ plt_axes = None
    /\ show_calls = <<>>
    /\ show_pc = "idle"

NextShow == CallImgShow

(***************************************************************************)
(* Claims about imgShow (checked under SpecShow)                           *)
(***************************************************************************)
Calls == DOMAIN show_calls

\* C10 as stated: no call leaves state behind, so what a call shows and
\* returns depends only on its own arguments, not on the calls made before
\* it; and imgShow does not modify the caller's array.
C10_AsStated ==
    /\ \A i \in Calls : show_calls[i].img_after = show_calls[i].args.img
    /\ \A i, j \in Calls :
          show_calls[i].args = show_calls[j].args =>
              /\ show_calls[i].shown = show_calls[j].shown
              /\ show_calls[i].ret = show_calls[j].ret

\* C10 amended: imgShow never modifies the caller's array; a call that is
\* given an Axes leaves pyplot's state alone, and what it shows and returns
\* depends only on its arguments.  (A call without ax draws on pyplot's
\* current axes, which outlive the call.)
C10_StatelessGivenAxes ==
    /\ \A i \in Calls : show_calls[i].img_after = show_calls[i].args.img
    /\ \A i \in Calls :
          show_calls[i].args.ax # None =>
              show_calls[i].plt_after = show_calls[i].plt_before
    /\ \A i, j \in Calls :
          (show_calls[i].args = show_calls[j].args /\ show_calls[i].args.ax # None) =>
              /\ show_calls[i].shown = show_calls[j].shown
              /\ show_calls[i].ret = show_calls[j].ret

\* Two calls with the same arguments, a new Axes each, were made on an image
\* that holds a NaN.
C10_Witness ==
    /\ Len(show_calls) = 2
    /\ show_calls[1].args = show_calls[2].args
    /\ show_calls[1].args.ax # None
    /\ \E k \in 1..NPix : caller_img[k] = NaN

(***************************************************************************)
(* imsShow (imgShow.py, lines 57-93).  The images are valid inputs of      *)
(* imgShow; img_name_list, clip_list, color_bands_list and extent_list are *)
(* left at None, so the three lists built at lines 72-77 have one entry    *)
(* per image, and axis_ticks is left at True.                              *)
(***************************************************************************)

\* What plt.subplots(row, col) returns (squeeze=True): the Axes itself for a
\* 1 x 1 grid, a 1-D array for one row or one column, a 2-D array otherwise.
Subplots(r, c) ==
    IF r = 1 /\ c = 1 THEN [kind |-> "Axes"]
    ELSE IF r = 1 \/ c = 1 THEN [kind |-> "1d", len |-> r * c]
    ELSE [kind |-> "2d", rows |-> r, cols |-> c]

\* A flat sequence of row*col Axes made by the caller.
CallerAxs(r, c) == [kind |-> "1d", len |-> r * c]

\* axs[ind]: an Axes object has no subscript; a 1-D array gives its Axes
\* number ind; a 2-D array gives its row number ind, itself an array.
Subscript(a, ind) ==
    IF a.kind = "Axes" THEN [kind |-> "TypeError"]
    ELSE IF a.kind = "1d"
    THEN IF ind < a.len THEN [kind |-> "Axes", at |-> ind]
         ELSE [kind |-> "IndexError"]
    ELSE IF ind < a.rows THEN [kind |-> "ndarray", row |-> ind, len |-> a.cols]
         ELSE [kind |-> "IndexError"]

\* The test `if ax:` of imgShow (lines 26-30 and 53-54): an Axes is true,
\* an array of more than one element has no truth value.
AxTruthRaises(ax) == ax.kind = "ndarray" /\ ax.len > 1

\* The loop variables after one whole pass of the inner loop body.
NextIJ(i, j, c) == IF j + 1 < c THEN <<i, j + 1>> ELSE <<i + 1, 0>>

\* Lines 72-83: the defaults of the lists, of row and of col, and the axes.
ImsCall ==
    /\ ims_pc = "start"
    /\ LET r == IF ims_args.row = None THEN 1 ELSE TheVal(ims_args.row)
           c == IF ims_args.col = None THEN Len(img_list) ELSE TheVal(ims_args.col)
       IN  /\ grid' = <<r, c>>
           /\ axs' = IF ims_args.axs_given THEN CallerAxs(r, c) ELSE Subplots(r, c)
    /\ ims_ij' = <<0, 0>>
    /\ ims_pc' = "loop"
    /\ UNCHANGED <<img_list, ims_args, ims_used, ims_shown, ims_result>>
    /\ UNCHANGED NotIms

\* Lines 84-92: one pass of the body of the inner loop.  break leaves the
\* inner loop only, so the outer loop goes on with the next i.  The
\* arguments of the imgShow call are evaluated left to right: img_list[ind],
\* axs[ind], then the three other lists.
ImsLoop ==
    /\ ims_pc = "loop"
    /\ ims_ij[1] < grid[1]
    /\ LET i == ims_ij[1]
           j == ims_ij[2]
           ind == (i * grid[2]) + j
           ax == Subscript(axs, ind)
       IN  IF ind = Len(img_list)
           THEN /\ ims_ij' = <<i + 1, 0>>
                /\ UNCHANGED <<ims_used, ims_shown, ims_result, ims_pc>>
           ELSE /\ ims_used' = Append(ims_used, ind)
                /\ IF ind > Len(img_list)
                   THEN /\ ims_pc' = "raised"
                        /\ ims_result' = "IndexError"
                        /\ UNCHANGED <<ims_ij, ims_shown>>
                   ELSE IF ax.kind \in {"TypeError", "IndexError"}
                   THEN /\ ims_pc' = "raised"
                        /\ ims_result' = ax.kind
                        /\ UNCHANGED <<ims_ij, ims_shown>>
                   ELSE /\ ims_shown' = Append(ims_shown, [ind |-> ind, img |-> img_list[ind + 1], ax |-> ax])
                        /\ IF AxTruthRaises(ax)
                           THEN /\ ims_pc' = "raised"
                                /\ ims_result' = "ValueError"
                                /\ UNCHANGED ims_ij
                           ELSE /\ ims_ij' = NextIJ(i, j, grid[2])
                                /\ UNCHANGED <<ims_result, ims_pc>>
    /\ UNCHANGED <<img_list, ims_args, grid, axs>>
    /\ UNCHANGED NotIms

\* Line 93: the outer loop is over, return axs.
ImsReturn ==
    /\ ims_pc = "loop"
    /\ ims_ij[1] >= grid[1]
    /\ ims_pc' = "done"
    /\ ims_result' = "axs"
    /\ UNCHANGED <<img_list, ims_args, grid, axs, ims_ij, ims_used, ims_shown>>
    /\ UNCHANGED NotIms

\* A call imsShow(img_list, row=..., col=..., axs=...) about to start.
InitIms ==
    /\ img_list \in {[k \in 1..n |-> k] : n \in 1..MaxImgs}
    /\ ims_args \in [row : {None} \cup {Some(r) : r \in 1..MaxGrid},
                     col : {None} \cup {Some(c) : c \in 1..MaxGrid},
                     axs_given : BOOLEAN]
    /\ grid = <<0, 0>>
    /\ axs = None
    /\ ims_ij = <<0, 0>>
    /\ ims_used = <<>>
    /\ ims_shown = <<>>
    /\ ims_result = "none"
    /\ ims_pc = "start"

IdleIms ==
    /\ img_list = <<>>
    /\ ims_args = [row |-> None, col |-> None, axs_given |-> FALSE]
    /\ grid = <<0, 0>>
    /\ axs = None
    /\ ims_ij = <<0, 0>>
    /\ ims_used = <<>>
    /\ ims_shown = <<>>
    /\ ims_result = "none"
    /\ ims_pc = "idle"

NextIms == ImsCall \/ ImsLoop \/ ImsReturn

\* The grid holds every image: row >= 1, col >= 1 and row*col >= n.
GridHoldsAll == grid[1] >= 1 /\ grid[2] >= 1 /\ grid[1] * grid[2] >= Len(img_list)

\* C11: imsShow visits the images in order and never past the end of the
\* list.  For every img_list of length n >= 1 and every grid with row >= 1,
\* col >= 1 and row*col >= n, the imgShow calls made so far are those of the
\* indexes 0, 1, 2, ... in increasing order, once each, no list is
\* subscripted with an index >= n, the call does not raise, and when it ends
\* it has shown all of 0..n-1 and returns axs.
C11_VisitsInOrder ==
    (ims_pc \in {"loop", "done", "raised"} /\ GridHoldsAll) =>
        /\ \A k \in 1..Len(ims_shown) : ims_shown[k].ind = k - 1
        /\ \A k \in 1..Len(ims_used) : ims_used[k] < Len(img_list)
        /\ ims_pc # "raised"
        /\ ims_pc = "done" => (Len(ims_shown) = Len(img_list) /\ ims_result = "axs")

vars == <<stackVars, geoVars, utmVars, vecVars, showVars, imsVars>>

StackInit == InitStack /\ IdleGeo /\ IdleUtm /\ IdleVec /\ IdleShow /\ IdleIms

SpecStack == StackInit /\ [][NextStack]_vars

GeoInit == InitGeo /\ IdleStack /\ IdleUtm /\ IdleVec /\ IdleShow /\ IdleIms

SpecGeo == GeoInit /\ [][NextGeo]_vars

UtmInit == InitUtm /\ IdleStack /\ IdleGeo /\ IdleVec /\ IdleShow /\ IdleIms

SpecUtm == UtmInit /\ [][NextUtm]_vars

VecInit == InitVec /\ IdleStack /\ IdleGeo /\ IdleUtm /\ IdleShow /\ IdleIms

SpecVec == VecInit /\ [][NextVec]_vars

ShowInit == InitShow /\ IdleStack /\ IdleGeo /\ IdleUtm /\ IdleVec /\ IdleIms

SpecShow == ShowInit /\ [][NextShow]_vars

ImsInit == InitIms /\ IdleStack /\ IdleGeo /\ IdleUtm /\ IdleVec /\ IdleShow

SpecIms == ImsInit /\ [][NextIms]_vars

=============================================================================
